---- MODULE Spec2Model ----
(***************************************************************************)
(* Model of cli/train.py: the training loop of main (Part 6 and Part 8)    *)
(* and evaluate_model.  The sequence model, the tokenizer, the sacrebleu   *)
(* metric object and wandb are external collaborators: their results are   *)
(* drawn from small sets, their failures are nondeterministic.             *)
(***************************************************************************)
EXTENDS Integers, Sequences, FiniteSets, TLC

\* ---- bounds of the model ------------------------------------------------
MaxEpochs == 2          \* --num_train_epochs in 1..MaxEpochs
MaxStepsPerEpoch == 2   \* len(train_dataloader) in 1..MaxStepsPerEpoch
MaxOverride == 3        \* --max_train_steps in {None} \cup 1..MaxOverride
MaxEvalEvery == 2       \* --eval_every_steps in 1..MaxEvalEvery
MaxLoggingSteps == 2    \* --logging_steps in 1..MaxLoggingSteps
MaxEval == 1            \* len(eval_dataset) in 0..MaxEval (training-loop runs)
MaxWords == 1           \* non-pad label positions of a training batch in 0..MaxWords
MaxEvalExamples == 3    \* len(eval_dataset) in 0..MaxEvalExamples (evaluation runs)
MaxBatchSize == 2       \* --batch_size in 1..MaxBatchSize (evaluation runs)
MaxRaw == 3             \* raw training pairs in 1..MaxRaw (data-pipeline runs)
MaxTokLen == 2          \* tokens of a raw text in 1..MaxTokLen; --max_seq_length likewise
MapChunk == 2           \* examples datasets.map hands to one preprocess_function call
MaxBeamSize == 2        \* --beam_size in {1, MaxBeamSize} (evaluation runs)

\* token counts a decoded prediction can have (len(target_tokenizer(pred)["input_ids"]))
GenLens == {2, 5, 8}

\* tokenizer.pad_token_id of the T5 tokenizer (line 424)
pad_token_id == 0

\* argparse default of --max_train_steps (default=None)
None == -1
\* no checkpoint has been written to output_dir yet
NoCheckpoint == -1

VARIABLES
    num_train_epochs,            \* args.num_train_epochs
    max_train_steps,             \* args.max_train_steps
    num_training_steps,          \* num_training_steps lr_scheduler was built with, None before
    num_update_steps_per_epoch,  \* len(train_dataloader)
    eval_every_steps,            \* args.eval_every_steps
    logging_steps,               \* args.logging_steps
    batch_size,                  \* args.batch_size
    n_eval,                      \* len(eval_dataloader.dataset)
    generation_type,             \* args.generation_type
    beam_size,                   \* args.beam_size
    max_seq_length,              \* args.max_seq_length
    raw,                         \* raw_datasets["train"]: token ids of each text, keys present
    map_pos,                     \* raw pairs datasets.map has handed to preprocess_function
    dataset,                     \* processed_datasets["train"]: rows {input_ids, labels}
    batch_rows,                  \* rows of the dataset the sampler chose for the batch
    batch,                       \* what collation_function_for_seq2seq returned for them
    pc,                          \* position of the control flow
    err,                         \* the exception that ended the run, "none" if none
    raised_at,                   \* the statement that raised it, "none" if none
    epoch,                       \* loop variable of the epoch loop (next value of range)
    batch_idx,                   \* batches the train_dataloader iterator has yielded this epoch
    global_step,
    n_batches,                   \* training batches taken from train_dataloader in this run
    num_words_in_batch,          \* non-pad label positions of the current training batch
    mode,                        \* model.training: "train" or "eval"
    params,                      \* version of the model parameters (number of updates applied)
    grads,                       \* number of batches whose gradient sits in the .grad buffers
    fwd_passes,                  \* completed forward passes, model(input_ids, labels)
    bwd_passes,                  \* completed loss.backward() calls
    zero_grads,                  \* optimizer.zero_grad() calls
    opt_steps,                   \* optimizer.step() calls
    sched_steps,                 \* lr_scheduler.step() calls
    checkpoint,                  \* parameter version stored in output_dir, or NoCheckpoint
    n_saves,                     \* completed model.save_pretrained calls
    saved,                       \* what each of them wrote: <<global_step, content>>
    eval_call,                   \* evaluate_model calls started
    eval_batch,                  \* batches the eval dataloader iterator has yielded this call
    n_generated_tokens,
    num_beams,                   \* num_beams of the last model.generate call
    generated_tokens,            \* output of model.generate for the current eval batch
    decoded_preds,               \* predictions of the current eval batch
    bleu,                        \* module-level metric accumulator (line 59)
    scored,                      \* what the last bleu.compute() scored
    n_computes,                  \* bleu.compute() calls of the current evaluate_model call
    eval_results,                \* <<numerator, denominator>> of generation_length
    log                          \* events in order: <<kind, global_step, epoch>>

config == <<num_update_steps_per_epoch, eval_every_steps, logging_steps, batch_size, n_eval,
           generation_type, beam_size>>
budget == <<num_train_epochs, max_train_steps, num_training_steps>>
loopv == <<epoch, batch_idx, global_step, n_batches, num_words_in_batch>>
modelv == <<params, grads, opt_steps, sched_steps>>
diskv == <<checkpoint, n_saves, saved>>
passv == <<fwd_passes, bwd_passes, zero_grads>>
evalv == <<eval_call, eval_batch, n_generated_tokens, num_beams, generated_tokens, decoded_preds, bleu, scored,
           n_computes, eval_results>>
datav == <<max_seq_length, raw, map_pos, dataset, batch_rows, batch>>
ctl == <<pc, err, raised_at>>
vars == <<config, datav, passv, budget, loopv, modelv, diskv, evalv, ctl, mode, log>>

\* ---- pure helpers -------------------------------------------------------
\* math.ceil(a / b) for a >= 0, b >= 1
CeilDiv(a, b) == (a + b - 1) \div b

RECURSIVE SumLens(_)
SumLens(s) == IF s = <<>> THEN 0 ELSE Head(s)[3] + SumLens(Tail(s))

\* lines 445-446: max_train_steps when no override is given
ResolveMaxTrainSteps(mts, nte, spe) == IF mts = None THEN nte * spe ELSE mts

\* variant: the override leaves num_train_epochs as given
ResolveNumTrainEpochsKept(mts, nte, spe) == nte

\* variant: the epochs of an override are rounded down
ResolveNumTrainEpochsFloor(mts, nte, spe) == IF mts = None THEN nte ELSE mts \div spe

\* lines 447-448: num_train_epochs is recomputed when the override is given
ResolveNumTrainEpochs(mts, nte, spe) == IF mts = None THEN nte ELSE CeilDiv(mts, spe)

\* variant: only the periodic trigger
EvalTriggerPeriodicOnly(gs, every, mts) == gs % every = 0

\* line 526: the evaluation/checkpoint trigger
EvalTrigger(gs, every, mts) == gs % every = 0 \/ gs = mts

\* line 510: the logging trigger
LoggingTrigger(gs, every) == gs % every = 0

\* DataLoader(eval_dataset, shuffle=False, batch_size): examples of batch k (0-based)
EvalBatchExamples(k, bs, n) ==
    LET first == k * bs + 1
        last == IF (k + 1) * bs < n THEN (k + 1) * bs ELSE n
    IN  [i \in 1..(last - first + 1) |-> first + i - 1]

\* len(eval_dataloader)
NumEvalBatches(bs, n) == CeilDiv(n, bs)

Event(kind) == <<kind, global_step, epoch>>

\* variant: a handler that writes a checkpoint after the failure
RaiseThenSave(e) == /\ pc' = "save_checkpoint"
                    /\ err' = e
                    /\ raised_at' = pc

\* an uncaught exception terminates the process
Raise(e) == /\ pc' = "failed"
            /\ err' = e
            /\ raised_at' = pc

Goto(l) == /\ pc' = l
           /\ UNCHANGED <<err, raised_at>>

\* ---- data pipeline: preprocess_function and collation ----------------------
Min(a, b) == IF a < b THEN a ELSE b

RECURSIVE MaxLen(_)
MaxLen(seqs) ==
    IF seqs = <<>> THEN 0
    ELSE LET m == MaxLen(Tail(seqs))
         IN  IF Len(Head(seqs)) > m THEN Len(Head(seqs)) ELSE m

\* truncation=True, max_length=n
Truncate(ids, n) == SubSeq(ids, 1, Min(Len(ids), n))

PadTo(ids, n, pad) == ids \o [j \in 1..(n - Len(ids)) |-> pad]

\* lines 276, 278: tokenizer(texts, max_length, truncation=True, padding=True)
\* truncates every sequence and pads all of them to the longest of the call
Tokenizer(texts, n) ==
    LET cut == [i \in DOMAIN texts |-> Truncate(texts[i], n)]
    IN  [i \in DOMAIN texts |-> PadTo(cut[i], MaxLen(cut), pad_token_id)]

\* lines 272-283: preprocess_function on the examples of one map call
preprocess_function(examples, n) ==
    LET model_inputs == Tokenizer([i \in DOMAIN examples |-> examples[i].src], n)
        targets == Tokenizer([i \in DOMAIN examples |-> examples[i].tgt], n)
    IN  [i \in DOMAIN examples |-> [input_ids |-> model_inputs[i], labels |-> targets[i]]]

\* utils.pad: right-pads every sequence to the longest of the list
Pad(seqs, pad) == [i \in DOMAIN seqs |-> PadTo(seqs[i], MaxLen(seqs), pad)]

\* variant: the mask is taken from the labels
PaddingMaskOfLabels(collated, pad) ==
    [i \in DOMAIN collated.labels |->
        [j \in DOMAIN collated.labels[i] |-> collated.labels[i][j] = pad]]

\* line 302: collated_batch["input_ids"] == pad_token_id, elementwise
PaddingMask(collated, pad) ==
    [i \in DOMAIN collated.input_ids |->
        [j \in DOMAIN collated.input_ids[i] |-> collated.input_ids[i][j] = pad]]

\* lines 287-303
collation_function_for_seq2seq(rows, pad) ==
    LET collated == [input_ids |-> Pad([i \in DOMAIN rows |-> rows[i].input_ids], pad),
                     labels |-> Pad([i \in DOMAIN rows |-> rows[i].labels], pad)]
    IN  [input_ids |-> collated.input_ids,
         labels |-> collated.labels,
         encoder_padding_mask |-> PaddingMask(collated, pad)]

\* lines 399-406: raw_datasets.map(preprocess_function_wrapped, batched=True),
\* one call per chunk; ex[source_lang] raises KeyError when the key is missing
Preprocess ==
    /\ pc = "preprocess"
    /\ map_pos < Len(raw)
    /\ LET last == Min(map_pos + MapChunk, Len(raw))
           examples == SubSeq(raw, map_pos + 1, last)
       IN  IF \E i \in DOMAIN examples : ~examples[i].has_keys
             THEN /\ Raise("KeyError")
                  /\ UNCHANGED <<map_pos, dataset>>
             ELSE /\ dataset' = dataset \o preprocess_function(examples, max_seq_length)
                  /\ map_pos' = last
                  /\ Goto("preprocess")
    /\ UNCHANGED <<config, max_seq_length, raw, batch_rows, batch, passv, budget, loopv,
                   modelv, diskv, evalv, mode, log>>

\* lines 408-430: the processed datasets and their dataloaders
CreateDataLoaders ==
    /\ pc = "preprocess"
    /\ map_pos >= Len(raw)
    /\ Goto("resolve")
    /\ UNCHANGED <<config, datav, passv, budget, loopv, modelv, diskv, evalv, mode, log>>

\* a batch a shuffling sampler can draw: distinct rows, at most bs of them
Batches(n, bs) ==
    UNION {{rows \in [1..k -> 1..n] : \A i, j \in 1..k : i # j => rows[i] # rows[j]} :
              k \in 1..Min(bs, n)}

\* the DataLoader applies collate_fn to the rows its sampler chose
Collate ==
    /\ pc = "preprocess"
    /\ map_pos >= Len(raw)
    /\ \E rows \in Batches(Len(dataset), batch_size) :
          /\ batch_rows' = rows
          /\ batch' = collation_function_for_seq2seq(
                          [i \in DOMAIN rows |-> dataset[rows[i]]], pad_token_id)
    /\ Goto("collated")
    /\ UNCHANGED <<config, max_seq_length, raw, map_pos, dataset, passv, budget, loopv,
                   modelv, diskv, evalv, mode, log>>

\* ---- main: step budget (lines 444-448) -----------------------------------
Resolve ==
    /\ pc = "resolve"
    /\ max_train_steps' = ResolveMaxTrainSteps(max_train_steps, num_train_epochs,
                                               num_update_steps_per_epoch)
    /\ num_train_epochs' = ResolveNumTrainEpochs(max_train_steps, num_train_epochs,
                                                 num_update_steps_per_epoch)
    /\ Goto("get_scheduler")
    /\ UNCHANGED <<config, datav, passv, num_training_steps, loopv, modelv, diskv, evalv, mode, log>>

\* variant: a schedule laid out over whole epochs
SchedulerTrainingStepsWholeEpochs == num_train_epochs * num_update_steps_per_epoch

\* line 454: num_training_steps=args.max_train_steps
SchedulerTrainingSteps == max_train_steps

\* lines 450-455: lr_scheduler = transformers.get_scheduler(...)
GetScheduler ==
    /\ pc = "get_scheduler"
    /\ num_training_steps' = SchedulerTrainingSteps
    /\ Goto("epoch_loop")
    /\ UNCHANGED <<config, datav, passv, num_train_epochs, max_train_steps, loopv, modelv, diskv,
                   evalv, mode, log>>

\* ---- main: Part 6, training loop ----------------------------------------
\* line 478-479: for epoch in range(args.num_train_epochs): model.train()
EpochLoop ==
    /\ pc = "epoch_loop"
    /\ epoch < num_train_epochs
    /\ mode' = "train"
    /\ batch_idx' = 0
    /\ Goto("batch_loop")
    /\ UNCHANGED <<config, datav, passv, budget, epoch, global_step, n_batches, num_words_in_batch,
                   modelv, diskv, evalv, log>>

\* line 478: range exhausted, fall through to Part 8
EpochLoopExit ==
    /\ pc = "epoch_loop"
    /\ epoch >= num_train_epochs
    /\ Goto("final_save")
    /\ UNCHANGED <<config, datav, passv, budget, loopv, modelv, diskv, evalv, mode, log>>

\* line 482-484: for batch in train_dataloader
BatchLoop ==
    /\ pc = "batch_loop"
    /\ batch_idx < num_update_steps_per_epoch
    /\ batch_idx' = batch_idx + 1
    /\ n_batches' = n_batches + 1
    /\ \E w \in 0..MaxWords : num_words_in_batch' = w
    /\ Goto("forward")
    /\ UNCHANGED <<config, datav, passv, budget, epoch, global_step, modelv, diskv, evalv, mode, log>>

\* line 482: the dataloader is exhausted, next epoch
BatchLoopExit ==
    /\ pc = "batch_loop"
    /\ batch_idx >= num_update_steps_per_epoch
    /\ epoch' = epoch + 1
    /\ Goto("epoch_loop")
    /\ UNCHANGED <<config, datav, passv, budget, batch_idx, global_step, n_batches, num_words_in_batch,
                   modelv, diskv, evalv, mode, log>>

\* lines 486-491: forward pass with loss
Forward ==
    /\ pc = "forward"
    /\ \/ /\ Goto("backward")
          /\ fwd_passes' = fwd_passes + 1
       \/ /\ Raise("RuntimeError")
          /\ UNCHANGED fwd_passes
    /\ UNCHANGED <<config, datav, bwd_passes, zero_grads, budget, loopv, modelv, diskv, evalv,
                   mode, log>>

\* line 493: loss.backward() adds this batch's gradient to the buffers
Backward ==
    /\ pc = "backward"
    /\ \/ /\ Goto("optimizer_step")
          /\ grads' = grads + 1
          /\ bwd_passes' = bwd_passes + 1
       \/ /\ Raise("RuntimeError")
          /\ UNCHANGED <<grads, bwd_passes>>
    /\ UNCHANGED <<config, datav, fwd_passes, zero_grads, budget, loopv, params, opt_steps, sched_steps, diskv, evalv,
                   mode, log>>

\* line 494: optimizer.step()
OptimizerStep ==
    /\ pc = "optimizer_step"
    /\ \/ /\ Goto("scheduler_step")
          /\ params' = params + 1
          /\ opt_steps' = opt_steps + 1
       \/ /\ Raise("RuntimeError")
          /\ UNCHANGED <<params, opt_steps>>
    /\ UNCHANGED <<config, datav, passv, budget, loopv, grads, sched_steps, diskv, evalv, mode, log>>

\* line 495: lr_scheduler.step()
SchedulerStep ==
    /\ pc = "scheduler_step"
    /\ sched_steps' = sched_steps + 1
    /\ Goto("zero_grad")
    /\ UNCHANGED <<config, datav, passv, budget, loopv, params, grads, opt_steps, diskv, evalv, mode, log>>

\* variant: the buffers are not cleared
GradsAfterZeroGradKept == grads

\* what optimizer.zero_grad() leaves in the buffers
GradsAfterZeroGrad == 0

\* line 496: optimizer.zero_grad()
ZeroGrad ==
    /\ pc = "zero_grad"
    /\ grads' = GradsAfterZeroGrad
    /\ zero_grads' = zero_grads + 1
    /\ Goto("increment")
    /\ UNCHANGED <<config, datav, fwd_passes, bwd_passes, budget, loopv, params, opt_steps,
                   sched_steps, diskv, evalv, mode, log>>

\* variant: a step counter that restarts with every epoch
NextGlobalStepInEpoch(gs) == batch_idx

\* variant: epochs are logged counting from one
EpochOfRecordOneBased == epoch + 1

\* line 505: "epoch": epoch, the loop variable of line 478
EpochOfRecord == epoch

\* the value global_step += 1 assigns (line 499)
NextGlobalStep(gs) == gs + 1

\* lines 498-508: global_step += 1, then the per-step record keyed by it
Increment ==
    /\ pc = "increment"
    /\ global_step' = NextGlobalStep(global_step)
    /\ log' = Append(log, <<"train_loss", global_step', EpochOfRecord>>)
    /\ Goto("logging_check")
    /\ UNCHANGED <<config, datav, passv, budget, epoch, batch_idx, n_batches, num_words_in_batch,
                   modelv, diskv, evalv, mode>>

\* line 510
LoggingCheck ==
    /\ pc = "logging_check"
    /\ IF LoggingTrigger(global_step, logging_steps)
         THEN Goto("accuracy")
         ELSE Goto("eval_check")
    /\ UNCHANGED <<config, datav, passv, budget, loopv, modelv, diskv, evalv, mode, log>>

\* lines 515-524: accuracy = ... / num_words_in_batch, a Python int division
Accuracy ==
    /\ pc = "accuracy"
    /\ IF num_words_in_batch = 0
         THEN /\ Raise("ZeroDivisionError")
              /\ UNCHANGED log
         ELSE /\ Goto("eval_check")
              /\ log' = Append(log, Event("train_batch_word_accuracy"))
    /\ UNCHANGED <<config, datav, passv, budget, loopv, modelv, diskv, evalv, mode>>

\* line 526
EvalCheck ==
    /\ pc = "eval_check"
    /\ IF EvalTrigger(global_step, eval_every_steps, max_train_steps)
         THEN Goto("evaluate_model")
         ELSE Goto("break_check")
    /\ UNCHANGED <<config, datav, passv, budget, loopv, modelv, diskv, evalv, mode, log>>

\* variant: the checkpoint is written before the example is logged
TriggerBlockSaveFirst == <<"log_eval", "save_checkpoint", "log_example", "break_check">>

\* lines 536-552: the statements that follow evaluate_model, in program order
TriggerBlock == <<"log_eval", "log_example", "save_checkpoint", "break_check">>

AfterInTriggerBlock(l) ==
    TriggerBlock[(CHOOSE i \in DOMAIN TriggerBlock : TriggerBlock[i] = l) + 1]

\* ---- evaluate_model (lines 306-346) -------------------------------------
\* lines 315-316: n_generated_tokens = 0; model.eval()
EvaluateModel ==
    /\ pc = "evaluate_model"
    /\ eval_call' = eval_call + 1
    /\ n_generated_tokens' = 0
    /\ mode' = "eval"
    /\ eval_batch' = 0
    /\ n_computes' = 0
    /\ log' = Append(log, Event("evaluate_model"))
    /\ Goto("eval_loop")
    /\ UNCHANGED <<config, datav, passv, budget, loopv, modelv, diskv, num_beams, generated_tokens, decoded_preds,
                   bleu, scored, eval_results>>

\* line 317: for batch in dataloader
EvalLoop ==
    /\ pc = "eval_loop"
    /\ IF eval_batch < NumEvalBatches(batch_size, n_eval)
         THEN /\ eval_batch' = eval_batch + 1
              /\ Goto("generate")
         ELSE /\ UNCHANGED eval_batch
              /\ Goto("model_train")
    /\ UNCHANGED <<config, datav, passv, budget, loopv, modelv, diskv, num_beams, eval_call, n_generated_tokens,
                   generated_tokens, decoded_preds, bleu, scored, n_computes, eval_results,
                   mode, log>>

\* lines 322-326: model.generate(..., num_beams=beam_size); each output is <<call, example, token count>>
Generate ==
    /\ pc = "generate"
    /\ \/ /\ LET ex == EvalBatchExamples(eval_batch - 1, batch_size, n_eval)
             IN  \E lens \in [DOMAIN ex -> GenLens] :
                    generated_tokens' = [i \in DOMAIN ex |-> <<eval_call, ex[i], lens[i]>>]
          /\ num_beams' = beam_size
          /\ Goto("batch_decode")
       \/ /\ Raise("RuntimeError")
          /\ UNCHANGED <<generated_tokens, num_beams>>
    /\ UNCHANGED <<config, datav, passv, budget, loopv, modelv, diskv, eval_call, eval_batch,
                   n_generated_tokens, decoded_preds, bleu, scored, n_computes,
                   eval_results, mode, log>>

\* lines 328-329: target_tokenizer.batch_decode
BatchDecode ==
    /\ pc = "batch_decode"
    /\ \/ /\ decoded_preds' = generated_tokens
          /\ Goto("count_tokens")
       \/ /\ Raise("RuntimeError")
          /\ UNCHANGED decoded_preds
    /\ UNCHANGED <<config, datav, passv, budget, loopv, modelv, diskv, num_beams, eval_call, eval_batch,
                   n_generated_tokens, generated_tokens, bleu, scored, n_computes,
                   eval_results, mode, log>>

\* lines 331-332: n_generated_tokens += len(target_tokenizer(pred)["input_ids"])
CountTokens ==
    /\ pc = "count_tokens"
    /\ n_generated_tokens' = n_generated_tokens + SumLens(decoded_preds)
    /\ Goto("add_batch")
    /\ UNCHANGED <<config, datav, passv, budget, loopv, modelv, diskv, num_beams, eval_call, eval_batch,
                   generated_tokens, decoded_preds, bleu, scored, n_computes, eval_results,
                   mode, log>>

\* variant: the accumulator keeps the last batch only
AddBatchResultLastOnly(acc, preds) == preds

\* line 336: the accumulator after bleu.add_batch
AddBatchResult(acc, preds) == acc \o preds

\* lines 334-336: postprocess_text, then bleu.add_batch appends to the accumulator
AddBatch ==
    /\ pc = "add_batch"
    /\ \/ /\ bleu' = AddBatchResult(bleu, decoded_preds)
          /\ Goto("eval_loop")
       \/ /\ Raise("RuntimeError")
          /\ UNCHANGED bleu
    /\ UNCHANGED <<config, datav, passv, budget, loopv, modelv, diskv, num_beams, eval_call, eval_batch,
                   n_generated_tokens, generated_tokens, decoded_preds, scored, n_computes,
                   eval_results, mode, log>>

\* variant: no model.train() after the batch loop
ModeAfterEvaluationUnrestored == mode

\* the mode line 339 leaves the model in
ModeAfterEvaluation == "train"

\* line 339: model.train(), reached only when the batch loop ends normally
ModelTrain ==
    /\ pc = "model_train"
    /\ mode' = ModeAfterEvaluation
    /\ Goto("compute")
    /\ UNCHANGED <<config, datav, passv, budget, loopv, modelv, diskv, evalv, log>>

\* line 340: bleu.compute() scores the accumulator and empties it; on an
\* accumulator nothing was added to, the metric library raises ValueError
\* (or, depending on its version, hands back a result)
Compute ==
    /\ pc = "compute"
    /\ \/ /\ scored' = bleu
          /\ bleu' = <<>>
          /\ n_computes' = n_computes + 1
          /\ Goto("results")
       \/ /\ bleu = <<>>
          /\ Raise("ValueError")
          /\ UNCHANGED <<bleu, scored, n_computes>>
       \/ /\ bleu # <<>>
          /\ Raise("RuntimeError")
          /\ UNCHANGED <<bleu, scored, n_computes>>
    /\ UNCHANGED <<config, datav, passv, budget, loopv, modelv, diskv, num_beams, eval_call, eval_batch,
                   n_generated_tokens, generated_tokens, decoded_preds, eval_results,
                   mode, log>>

\* variant: division by the number of batches, len(dataloader)
GenerationLengthDenominatorBatches == NumEvalBatches(batch_size, n_eval)

\* line 344: the denominator of generation_length
GenerationLengthDenominator == n_eval

\* lines 342-346: generation_length = n_generated_tokens / len(dataloader.dataset)
Results ==
    /\ pc = "results"
    /\ IF GenerationLengthDenominator = 0
         THEN /\ Raise("ZeroDivisionError")
              /\ UNCHANGED eval_results
         ELSE /\ eval_results' = <<n_generated_tokens, GenerationLengthDenominator>>
              /\ Goto(TriggerBlock[1])
    /\ UNCHANGED <<config, datav, passv, budget, loopv, modelv, diskv, num_beams, eval_call, eval_batch,
                   n_generated_tokens, generated_tokens, decoded_preds, bleu, scored,
                   n_computes, mode, log>>

\* ---- main: after evaluate_model returns (lines 536-553) -----------------
\* lines 536-542: wandb.log of eval/bleu and eval/generation_length
LogEval ==
    /\ pc = "log_eval"
    /\ log' = Append(log, Event("eval/bleu"))
    /\ Goto(AfterInTriggerBlock("log_eval"))
    /\ UNCHANGED <<config, datav, passv, budget, loopv, modelv, diskv, evalv, mode>>

\* lines 543-547: one example of the last batch, random.randint(0, len - 1);
\* tokenizer.decode may raise
LogExample ==
    /\ pc = "log_example"
    /\ \/ /\ \E random_index \in 1..Len(decoded_preds) :
                log' = Append(log, Event("example"))
          /\ Goto(AfterInTriggerBlock("log_example"))
       \/ /\ Raise("RuntimeError")
          /\ UNCHANGED log
    /\ UNCHANGED <<config, datav, passv, budget, loopv, modelv, diskv, evalv, mode>>

\* variant: the written content also depends on how many saves came before
SavedContentStamped == params + n_saves

\* what model.save_pretrained writes: the current parameters
SavedContent == params

\* lines 549-550: model.save_pretrained(args.output_dir)
SaveCheckpoint ==
    /\ pc = "save_checkpoint"
    /\ checkpoint' = SavedContent
    /\ n_saves' = n_saves + 1
    /\ saved' = Append(saved, <<global_step, SavedContent>>)
    /\ log' = Append(log, Event("save_checkpoint"))
    /\ Goto(AfterInTriggerBlock("save_checkpoint"))
    /\ UNCHANGED <<config, datav, passv, budget, loopv, modelv, evalv, mode>>

\* lines 552-553: break leaves the batch loop; the epoch loop takes its next value
BreakCheck ==
    /\ pc = "break_check"
    /\ IF global_step >= max_train_steps
         THEN /\ epoch' = epoch + 1
              /\ Goto("epoch_loop")
         ELSE /\ UNCHANGED epoch
              /\ Goto("batch_loop")
    /\ UNCHANGED <<config, datav, passv, budget, batch_idx, global_step, n_batches, num_words_in_batch,
                   modelv, diskv, evalv, mode, log>>

\* ---- main: Part 8 (lines 559-565) ---------------------------------------
\* variant: the final save is skipped when the checkpoint is up to date
FinalSaveGuardUnlessSaved == checkpoint # params

\* line 560 stands under no condition
FinalSaveGuard == TRUE

FinalSave ==
    /\ pc = "final_save"
    /\ IF FinalSaveGuard
         THEN /\ checkpoint' = SavedContent
              /\ n_saves' = n_saves + 1
              /\ saved' = Append(saved, <<global_step, SavedContent>>)
              /\ log' = Append(log, Event("save_final"))
         ELSE UNCHANGED <<checkpoint, n_saves, saved, log>>
    /\ Goto("done")
    /\ UNCHANGED <<config, datav, passv, budget, loopv, modelv, evalv, mode>>

\* ---- specifications -----------------------------------------------------
\* raw pairs whose texts have one token each; pair m, if any, lacks a language key
PlainRaw(n, m) == [i \in 1..n |-> [src |-> <<i>>, tgt |-> <<i>>, has_keys |-> i # m]]

\* raw pairs with texts of the given token counts; the tokens of pair i are i
RawOfLens(lens) ==
    [i \in DOMAIN lens |-> [src |-> [j \in 1..lens[i][1] |-> i],
                            tgt |-> [j \in 1..lens[i][2] |-> i],
                            has_keys |-> TRUE]]

InitRun ==
    /\ pc = "preprocess"
    /\ map_pos = 0
    /\ dataset = <<>>
    /\ batch_rows = <<>>
    /\ batch = <<>>
    /\ err = "none"
    /\ raised_at = "none"
    /\ num_training_steps = None
    /\ epoch = 0
    /\ batch_idx = 0
    /\ global_step = 0
    /\ n_batches = 0
    /\ num_words_in_batch = 0
    /\ mode = "eval"      \* from_pretrained hands the model back in eval mode
    /\ params = 0
    /\ grads = 0
    /\ opt_steps = 0
    /\ sched_steps = 0
    /\ checkpoint = NoCheckpoint
    /\ n_saves = 0
    /\ saved = <<>>
    /\ fwd_passes = 0
    /\ bwd_passes = 0
    /\ zero_grads = 0
    /\ num_beams = 0
    /\ eval_call = 0
    /\ eval_batch = 0
    /\ n_generated_tokens = 0
    /\ generated_tokens = <<>>
    /\ decoded_preds = <<>>
    /\ bleu = <<>>
    /\ scored = <<>>
    /\ n_computes = 0
    /\ eval_results = <<0, 0>>
    /\ log = <<>>

\* runs that vary the step budget and the triggers
Init ==
    /\ InitRun
    /\ num_train_epochs \in 1..MaxEpochs
    /\ max_train_steps \in {None} \cup 1..MaxOverride
    /\ num_update_steps_per_epoch \in 1..MaxStepsPerEpoch
    /\ eval_every_steps \in 1..MaxEvalEvery
    /\ logging_steps \in 1..MaxLoggingSteps
    /\ batch_size = 1
    /\ n_eval \in 0..MaxEval
    /\ generation_type = "beam_search"
    /\ beam_size = MaxBeamSize
    /\ max_seq_length = MaxTokLen
    /\ \E m \in 0..1 : raw = PlainRaw(num_update_steps_per_epoch * batch_size, m)

\* runs of one or two one-batch epochs that vary the evaluation set and its batching
InitEval ==
    /\ InitRun
    /\ num_train_epochs \in 1..2
    /\ max_train_steps = None
    /\ num_update_steps_per_epoch = 1
    /\ eval_every_steps = 1
    /\ logging_steps = 1
    /\ batch_size \in 1..MaxBatchSize
    /\ n_eval \in 0..MaxEvalExamples
    /\ generation_type \in {"greedy", "beam_search"}
    /\ beam_size \in {1, MaxBeamSize}
    /\ max_seq_length = MaxTokLen
    /\ \E m \in 0..1 : raw = PlainRaw(num_update_steps_per_epoch * batch_size, m)

\* runs that vary the raw training pairs, the truncation bound and the batch size
InitData ==
    /\ InitRun
    /\ num_train_epochs = 1
    /\ max_train_steps = None
    /\ eval_every_steps = 1
    /\ logging_steps = 1
    /\ n_eval = 1
    /\ generation_type = "beam_search"
    /\ beam_size = MaxBeamSize
    /\ batch_size \in 1..MaxBatchSize
    /\ max_seq_length \in 1..MaxTokLen
    /\ \E n \in 1..MaxRaw :
          /\ \E lens \in [1..n -> (1..MaxTokLen) \X (1..MaxTokLen)] : raw = RawOfLens(lens)
          /\ num_update_steps_per_epoch = CeilDiv(n, batch_size)

Next ==
    \/ Preprocess
    \/ CreateDataLoaders
    \/ Resolve
    \/ GetScheduler
    \/ EpochLoop
    \/ EpochLoopExit
    \/ BatchLoop
    \/ BatchLoopExit
    \/ Forward
    \/ Backward
    \/ OptimizerStep
    \/ SchedulerStep
    \/ ZeroGrad
    \/ Increment
    \/ LoggingCheck
    \/ Accuracy
    \/ EvalCheck
    \/ EvaluateModel
    \/ EvalLoop
    \/ Generate
    \/ BatchDecode
    \/ CountTokens
    \/ AddBatch
    \/ ModelTrain
    \/ Compute
    \/ Results
    \/ LogEval
    \/ LogExample
    \/ SaveCheckpoint
    \/ BreakCheck
    \/ FinalSave

Spec == Init /\ [][Next]_vars

SpecEval == InitEval /\ [][Next]_vars

\* the data pipeline alone: preprocessing, then one collated batch
NextData ==
    \/ Preprocess
    \/ Collate

SpecData == InitData /\ [][NextData]_vars

\* the interpreter always executes the next statement of a running process
FairSpec == Init /\ [][Next]_vars /\ WF_vars(Next)

\* ---- properties ---------------------------------------------------------
\* steps a run of the bounded model can reach
StepRange == 1..(MaxEpochs * MaxStepsPerEpoch + MaxOverride)

\* statements of evaluate_model
EvalLabels == {"evaluate_model", "eval_loop", "generate", "batch_decode", "count_tokens",
               "add_batch", "model_train", "compute", "results"}

\* statements of one optimization step
StepLabels == {"forward", "backward", "optimizer_step", "scheduler_step", "zero_grad"}

CountKind(kind) == Cardinality({i \in DOMAIN log : log[i][1] = kind})

\* evaluations at step s that were followed by the trigger's checkpoint save
EvalSaveAt(s) ==
    {i \in DOMAIN log :
        /\ log[i][1] = "evaluate_model"
        /\ log[i][2] = s
        /\ \E j \in DOMAIN log :
              /\ j > i
              /\ log[j][1] = "save_checkpoint"
              /\ log[j][2] = s
              /\ \A k \in (i + 1)..(j - 1) : log[k][1] \in {"eval/bleu", "example"}}

\* lines 444-448 have run
Resolved == pc \notin {"preprocess", "resolve"} /\ raised_at # "preprocess"

\* C1: in a run that completes, evaluation followed by a checkpoint save
\* happened at step s iff s is a multiple of eval_every_steps up to
\* max_train_steps or s = max_train_steps, and exactly once at max_train_steps.
C1_EvalSchedule ==
    (pc = "done" /\ err = "none") =>
        /\ \A s \in StepRange :
              (EvalSaveAt(s) # {}) <=>
                 ((s % eval_every_steps = 0 /\ s <= max_train_steps) \/ s = max_train_steps)
        /\ Cardinality(EvalSaveAt(max_train_steps)) = 1

C1_Witness ==
    /\ pc = "done"
    /\ max_train_steps % eval_every_steps # 0
    /\ max_train_steps > eval_every_steps
    /\ EvalSaveAt(eval_every_steps) # {}
    /\ EvalSaveAt(max_train_steps) # {}

\* C2: the run terminates, global_step never exceeds max_train_steps, no
\* batch is taken once global_step has reached max_train_steps, and a run
\* that completes has processed exactly max_train_steps batches.
C2_Termination ==
    /\ [](Resolved => global_step <= max_train_steps)
    /\ [][n_batches' # n_batches => global_step < max_train_steps]_vars
    /\ [](pc = "done" => (n_batches = max_train_steps /\ global_step = max_train_steps))
    /\ <>(pc \in {"done", "failed"})

\* the break came in the middle of an epoch and the run completed
C2_Witness ==
    /\ pc = "done"
    /\ batch_idx < num_update_steps_per_epoch
    /\ global_step = max_train_steps
    /\ n_batches = max_train_steps

\* C3: global_step starts at 0, changes only by +1, once per batch taken
\* from the dataloader, and is never reset or decreased.
C3_StepClock ==
    /\ global_step = 0
    /\ [][global_step' = global_step \/ global_step' = global_step + 1]_vars
    /\ [](pc \in {"batch_loop", "epoch_loop", "final_save", "done"} => global_step = n_batches)
    /\ [](global_step <= n_batches /\ n_batches <= global_step + 1)

\* a step taken after an epoch boundary and after an evaluation
C3_Witness ==
    /\ pc = "logging_check"
    /\ epoch >= 1
    /\ eval_call >= 1
    /\ global_step > num_update_steps_per_epoch

\* C4: whenever control has left evaluate_model, by return or by an
\* exception raised inside it, the model is in training mode.
C4_TrainModeOnEveryExit ==
    /\ (pc = "log_eval" => mode = "train")
    /\ ((pc = "failed" /\ raised_at \in EvalLabels) => mode = "train")

\* C5: model.generate is only called in inference mode, every statement of an
\* optimization step runs in training mode, and while evaluate_model runs no
\* optimization step is in progress or performed.
C5_EvalBracketsGeneration ==
    /\ (pc \in {"generate", "batch_decode", "count_tokens", "add_batch"} => mode = "eval")
    /\ (pc \in StepLabels => mode = "train")
    /\ (pc \in EvalLabels =>
           /\ grads = 0
           /\ opt_steps = global_step
           /\ n_batches = global_step
           /\ (pc # "evaluate_model" => log[Len(log)] = <<"evaluate_model", opt_steps, epoch>>))

\* an optimization step that follows an evaluation within the same epoch
C5_Witness ==
    /\ pc = "forward"
    /\ eval_call >= 1
    /\ batch_idx >= 2
    /\ mode = "train"

\* C6: a completed run made exactly one save after the loop, as its last
\* action; the saves are the evaluations plus one, and the checkpoint holds
\* the parameters of the last optimization step.
C6_FinalSave ==
    (pc = "done") =>
        /\ CountKind("save_final") = 1
        /\ log[Len(log)][1] = "save_final"
        /\ log[Len(log) - 1][1] = "save_checkpoint"
        /\ n_saves = CountKind("evaluate_model") + 1
        /\ n_saves = CountKind("save_checkpoint") + 1
        /\ checkpoint = params
        /\ params = opt_steps
        /\ opt_steps = max_train_steps

C6_Witness ==
    /\ pc = "done"
    /\ n_saves >= 3
    /\ checkpoint = max_train_steps

\* C7: with an empty evaluation set evaluate_model ends with
\* EmptyEvaluationSetError and never reaches the division by zero examples.
C7_EmptyEvaluationSetError ==
    /\ ((n_eval = 0 /\ pc = "failed" /\ raised_at \in EvalLabels)
            => err = "EmptyEvaluationSetError")
    /\ ~(pc = "results" /\ n_eval = 0)

\* C8: the accuracy computation of a logging step never ends the run with a
\* division error, also on a batch without non-pad labels.
C8_GuardedAccuracy ==
    ~(pc = "failed" /\ raised_at = "accuracy" /\ err = "ZeroDivisionError")

\* C9: no score is computed while the batches of a call are processed; the
\* one computation after the last batch scores exactly the examples of the
\* current call, in order, and the accumulator never holds an item of an
\* earlier call.
C9_CorpusScoreOncePerCall ==
    /\ \A i \in DOMAIN bleu : bleu[i][1] = eval_call
    /\ (pc \in {"eval_loop", "generate", "batch_decode", "count_tokens", "add_batch",
                "model_train", "compute"} => n_computes = 0)
    /\ (pc \in {"add_batch", "generate"} =>
            \A i \in DOMAIN bleu : bleu[i][2] = i)
    /\ (pc \in {"results", "log_eval", "log_example", "save_checkpoint"} =>
            /\ n_computes = 1
            /\ Len(scored) = n_eval
            /\ \A i \in DOMAIN scored : scored[i][1] = eval_call /\ scored[i][2] = i
            /\ bleu = <<>>)

\* the second evaluation of a run scored a set of several batches
C9_Witness ==
    /\ pc = "log_eval"
    /\ eval_call = 2
    /\ eval_batch >= 2
    /\ Len(scored) = 3

\* C10: generation_length is the sum of the token counts of all scored
\* examples over the number of examples; lengths 2, 5, 8 give 5.
C10_GenerationLength ==
    (pc = "log_eval") =>
        /\ eval_results[1] = SumLens(scored)
        /\ eval_results[2] = n_eval
        /\ eval_results[2] = Len(scored)
        /\ ((Len(scored) = 3 /\ scored[1][3] = 2 /\ scored[2][3] = 5 /\ scored[3][3] = 8)
               => eval_results[1] = 5 * eval_results[2])

\* three examples of lengths 2, 5, 8 in a full and a partial batch
C10_Witness ==
    /\ pc = "log_eval"
    /\ batch_size = 2
    /\ n_eval = 3
    /\ scored[1][3] = 2 /\ scored[2][3] = 5 /\ scored[3][3] = 8
    /\ eval_results = <<15, 3>>

\* C11: in every collated batch the padding mask has the shape of input_ids
\* and is true exactly where input_ids holds pad_token_id.
C11_PaddingMask ==
    (pc = "collated") =>
        /\ DOMAIN batch.encoder_padding_mask = DOMAIN batch.input_ids
        /\ \A i \in DOMAIN batch.input_ids :
              /\ DOMAIN batch.encoder_padding_mask[i] = DOMAIN batch.input_ids[i]
              /\ \A j \in DOMAIN batch.input_ids[i] :
                    batch.encoder_padding_mask[i][j] <=> (batch.input_ids[i][j] = pad_token_id)

\* a batch of two rows with a padded and an unpadded position, labels of another width
C11_Witness ==
    /\ pc = "collated"
    /\ Len(batch.input_ids) = 2
    /\ Len(batch.input_ids[1]) # Len(batch.labels[1])
    /\ \E i \in DOMAIN batch.input_ids : \E j \in DOMAIN batch.input_ids[i] :
          batch.encoder_padding_mask[i][j]
    /\ \E i \in DOMAIN batch.input_ids : \E j \in DOMAIN batch.input_ids[i] :
          ~batch.encoder_padding_mask[i][j]

\* C12: every collated batch is rectangular per field, as wide as the longest
\* real (pre-padding) sequence of that field among the rows of this batch,
\* and keeps the order of its rows.
C12_BatchLocalPadding ==
    (pc = "collated") =>
        /\ Len(batch.input_ids) = Len(batch_rows)
        /\ Len(batch.labels) = Len(batch_rows)
        /\ \A i \in DOMAIN batch_rows :
              /\ Len(batch.input_ids[i]) =
                     MaxLen([k \in DOMAIN batch_rows |-> Truncate(raw[batch_rows[k]].src, max_seq_length)])
              /\ Len(batch.labels[i]) =
                     MaxLen([k \in DOMAIN batch_rows |-> Truncate(raw[batch_rows[k]].tgt, max_seq_length)])
              /\ batch.input_ids[i][1] = batch_rows[i]
              /\ batch.labels[i][1] = batch_rows[i]

\* C13: without an override max_train_steps is num_train_epochs times the
\* steps per epoch; with one, num_train_epochs becomes its ceiling quotient
\* and the epoch loop is not exhausted before global_step reaches it.
C13_StepBudget ==
    /\ [][pc = "resolve" =>
            IF max_train_steps = None
              THEN /\ max_train_steps' = num_train_epochs * num_update_steps_per_epoch
                   /\ num_train_epochs' = num_train_epochs
              ELSE /\ max_train_steps' = max_train_steps
                   /\ num_train_epochs' * num_update_steps_per_epoch >= max_train_steps
                   /\ (num_train_epochs' - 1) * num_update_steps_per_epoch < max_train_steps]_vars
    /\ [](pc \in {"final_save", "done"} => global_step = max_train_steps)
    /\ [][(pc = "epoch_loop" /\ pc' = "final_save") => global_step >= max_train_steps]_vars

\* an override that is no multiple of the steps per epoch, reached in the last epoch
C13_Witness ==
    /\ pc = "done"
    /\ max_train_steps % num_update_steps_per_epoch # 0
    /\ max_train_steps > num_update_steps_per_epoch
    /\ batch_idx < num_update_steps_per_epoch
    /\ global_step = max_train_steps

\* the step-s logging statements (lines 501-524) are behind the run
LoggedStep(s) == s < global_step \/ (s = global_step /\ pc \notin {"logging_check", "accuracy"})

\* C14: one train_loss record per processed batch, keyed 1, 2, ... in order,
\* and a train_batch_word_accuracy record at step s iff s mod logging_steps = 0.
C14_TrainingRecords ==
    /\ CountKind("train_loss") = global_step
    /\ \A s \in 1..global_step :
          Cardinality({i \in DOMAIN log : log[i][1] = "train_loss" /\ log[i][2] = s}) = 1
    /\ \A s \in 1..global_step :
          LoggedStep(s) =>
             ((\E i \in DOMAIN log : log[i][1] = "train_batch_word_accuracy" /\ log[i][2] = s)
                 <=> s % logging_steps = 0)

\* C15: beam_search decodes with num_beams = beam_size, greedy with one beam.
C15_DecodingPolicy ==
    (pc = "batch_decode") =>
        /\ (generation_type = "beam_search" => num_beams = beam_size)
        /\ (generation_type = "greedy" => num_beams = 1)

\* C16: a raw pair without a language key ends the run with
\* PreprocessingError before any optimization step, evaluation or save.
C16_PreprocessingError ==
    ((\E i \in DOMAIN raw : ~raw[i].has_keys) /\ pc # "preprocess") =>
        /\ pc = "failed"
        /\ err = "PreprocessingError"
        /\ fwd_passes = 0 /\ opt_steps = 0 /\ eval_call = 0 /\ n_saves = 0

\* the content of the last completed save
LastSaved == IF saved = <<>> THEN NoCheckpoint ELSE saved[Len(saved)][2]

\* C17: a failure ends the run at once, nothing runs after it, and the
\* checkpoint is the one of the last completed save, or none; a failure
\* inside evaluate_model leaves the checkpoint of the previous trigger.
C17_FailureKeepsCheckpoint ==
    /\ [](err # "none" => pc = "failed")
    /\ [][pc # "failed"]_vars
    /\ [][pc' = "failed" => (checkpoint' = checkpoint /\ saved' = saved)]_vars
    /\ [](pc = "failed" => (checkpoint = LastSaved /\ Len(saved) = n_saves))
    /\ []((pc = "failed" /\ raised_at \in EvalLabels) =>
             /\ checkpoint < params
             /\ Len(saved) = eval_call - 1
             /\ (saved # <<>> => saved[Len(saved)][1] < global_step))

\* generation failed at the second trigger, the checkpoint of the first one stays
C17_Witness ==
    /\ pc = "failed"
    /\ raised_at = "generate"
    /\ checkpoint # NoCheckpoint
    /\ checkpoint < params
    /\ eval_call = 2

\* C18: saves made at the same global_step wrote the same content; the final
\* save repeats the content of the save of the last trigger.
C18_SaveIdempotent ==
    /\ \A i, j \in DOMAIN saved : saved[i][1] = saved[j][1] => saved[i][2] = saved[j][2]
    /\ (pc = "done" =>
           /\ Len(saved) >= 2
           /\ saved[Len(saved)] = saved[Len(saved) - 1]
           /\ checkpoint = saved[Len(saved) - 1][2])

C18_Witness ==
    /\ pc = "done"
    /\ Len(saved) >= 3
    /\ saved[Len(saved)][1] = saved[Len(saved) - 1][1]
    /\ saved[Len(saved)][2] = params

\* C19: forward, backward, optimizer step, scheduler step and zero_grad run
\* in this order, once per step; the buffers are empty when a forward pass
\* starts and hold the gradient of one batch when the optimizer steps.
C19_StepOrder ==
    /\ fwd_passes >= bwd_passes /\ bwd_passes >= opt_steps /\ opt_steps >= sched_steps
    /\ sched_steps >= zero_grads /\ zero_grads + 1 >= fwd_passes
    /\ (pc = "forward" => (grads = 0 /\ fwd_passes = n_batches - 1 /\ zero_grads = fwd_passes))
    /\ (pc = "backward" => (grads = 0 /\ fwd_passes = n_batches /\ bwd_passes = n_batches - 1))
    /\ (pc = "optimizer_step" => (grads = 1 /\ bwd_passes = n_batches /\ opt_steps = n_batches - 1))
    /\ (pc = "scheduler_step" => (opt_steps = n_batches /\ sched_steps = n_batches - 1))
    /\ (pc = "zero_grad" => (sched_steps = n_batches /\ zero_grads = n_batches - 1))
    /\ ((pc \notin StepLabels /\ pc # "failed") =>
           (grads = 0 /\ zero_grads = n_batches /\ fwd_passes = n_batches))

\* the optimizer is about to step for the second batch
C19_Witness ==
    /\ pc = "optimizer_step"
    /\ n_batches = 2
    /\ grads = 1
    /\ zero_grads = 1

\* C20 as stated: evaluator, eval record, checkpoint, then the example; the
\* checkpoint is there whatever happens to the example logging.
C20_SaveBeforeExample ==
    /\ \A i \in DOMAIN log :
          log[i][1] = "example" =>
             (i >= 4 /\ log[i - 1][1] = "save_checkpoint" /\ log[i - 2][1] = "eval/bleu"
                     /\ log[i - 3][1] = "evaluate_model")
    /\ ((pc = "failed" /\ raised_at = "log_example") => checkpoint = params)

\* C20 as the code has it: evaluator, eval record, example, then checkpoint,
\* all at the same global_step; a failing example logging leaves no save.
C20_TriggerOrder ==
    /\ \A i \in DOMAIN log :
          log[i][1] = "save_checkpoint" =>
             /\ i >= 4
             /\ log[i - 1] = <<"example", log[i][2], log[i][3]>>
             /\ log[i - 2] = <<"eval/bleu", log[i][2], log[i][3]>>
             /\ log[i - 3] = <<"evaluate_model", log[i][2], log[i][3]>>
    /\ \A i \in DOMAIN log :
          log[i][1] = "example" => (i >= 3 /\ log[i - 1][1] = "eval/bleu")
    /\ (pc = "break_check" =>
           (EvalTrigger(global_step, eval_every_steps, max_train_steps)
               => log[Len(log)] = <<"save_checkpoint", global_step, epoch>>))
    /\ ((pc = "failed" /\ raised_at = "log_example") =>
           (checkpoint < params /\ log[Len(log)][1] = "eval/bleu"))

\* a trigger completed, and another one lost its save to the example logging
C20_Witness ==
    /\ pc = "failed"
    /\ raised_at = "log_example"
    /\ CountKind("save_checkpoint") = 1
    /\ CountKind("example") = 1
    /\ CountKind("eval/bleu") = 2

\* control stands between optimizer.step() and global_step += 1 (lines 495-499)
InsideUpdate == pc \in {"scheduler_step", "zero_grad", "increment"}

\* C21: between two optimization steps the optimizer steps, the scheduler
\* steps and global_step are equal; a run that completes has stepped the
\* scheduler max_train_steps times, the num_training_steps it was built with.
C21_SchedulerInStep ==
    /\ (~InsideUpdate => (opt_steps = sched_steps /\ sched_steps = global_step))
    /\ (pc = "scheduler_step" => (opt_steps = sched_steps + 1 /\ sched_steps = global_step))
    /\ (pc \in {"zero_grad", "increment"} =>
           (opt_steps = sched_steps /\ sched_steps = global_step + 1))
    /\ (num_training_steps = None => sched_steps = 0)
    /\ (num_training_steps # None =>
           (num_training_steps = max_train_steps /\ sched_steps <= num_training_steps))
    /\ (pc = "done" =>
           (sched_steps = max_train_steps /\ sched_steps = num_training_steps))

\* a completed run whose budget is an override that ends in the middle of an epoch
C21_Witness ==
    /\ pc = "done"
    /\ num_training_steps # num_train_epochs * num_update_steps_per_epoch
    /\ sched_steps = num_training_steps
    /\ opt_steps = sched_steps
    /\ sched_steps >= 2

\* C22: every train_loss record of step s carries epoch (s - 1) div
\* steps_per_epoch, and that epoch lies in 0..num_train_epochs - 1.
C22_EpochOfStep ==
    \A i \in DOMAIN log :
        log[i][1] = "train_loss" =>
           /\ log[i][3] = (log[i][2] - 1) \div num_update_steps_per_epoch
           /\ 0 <= log[i][3]
           /\ log[i][3] < num_train_epochs

\* records on both sides of an epoch boundary, the second epoch cut short by the budget
C22_Witness ==
    /\ num_update_steps_per_epoch = 2
    /\ max_train_steps = 3
    /\ \E i, j \in DOMAIN log :
          /\ log[i] = <<"train_loss", 2, 0>>
          /\ log[j] = <<"train_loss", 3, 1>>
          /\ i < j

====
